---- MODULE Spec2Model ----
(***************************************************************************)
(* Model of the candidate pipeline of kinara-anu-backend: run_pipeline     *)
(* (main.py) and the functions it calls: extract_text_from_pdf             *)
(* (pdf_extractor.py), extract_candidate_profile / validate_profile        *)
(* (parse_documents.py), generate_interview_chat / validate_interview_data *)
(* (interview_prompt.py) and insert_candidate_to_supabase                  *)
(* (supabase_insert.py).                                                   *)
(*                                                                         *)
(* Encoding of Python values                                               *)
(*   str    a sequence of tokens (TLA+ strings); "" is << >>, and          *)
(*          concatenation is \o.  An f-string is the concatenation of its  *)
(*          literal parts and the formatted values.                        *)
(*   dict   a function whose domain is the set of keys; {} is EmptyDict.   *)
(*   a JSON value held by a profile field is a tagged record [t, v]:       *)
(*          t = "str"  (v the tokens), "list" (v the elements, each a      *)
(*          one-token string), "list_nonstr" (a list holding a number),    *)
(*          "null" (None) or "num".                                        *)
(*   an exception is a record [type, msg, where]; NoExc means none.        *)
(***************************************************************************)
EXTENDS Naturals, Sequences, FiniteSets, TLC

VARIABLES
    pc,                 \* position of the invocation inside run_pipeline
    name, email,        \* arguments of run_pipeline
    cv_url, dice_url,
    push_supabase,
    openai_key,         \* environment: OPENAI_API_KEY is set
    supabase_creds,     \* environment: SUPABASE_URL and SUPABASE_KEY are set
    cv_text, dice_text, \* locals of run_pipeline
    profile_data,
    is_valid,
    chat_data,
    interview_valid,
    supabase_result,
    result,             \* the value run_pipeline returned
    exc,                \* the exception that was raised inside the try block
    profile_resp,       \* what the completion service answered (history)
    interview_resp,
    sink_outcome,       \* how the persistence sink behaved (history)
    completion_requests,\* number of chat.completions.create calls issued
    sink_calls,         \* number of insert_candidate_to_supabase calls
    sink_records,       \* the records handed to table(...).insert
    trace,              \* the steps executed, in order
    other,              \* a second invocation running at the same time
    processor,          \* DocumentProcessor.process_candidate_documents:
                        \* its flags, and the files it has written
    http                \* app.py process_candidate: the request body and
                        \* the response

vars == << pc, name, email, cv_url, dice_url, push_supabase, openai_key,
           supabase_creds, cv_text, dice_text, profile_data, is_valid,
           chat_data, interview_valid, supabase_result, result, exc,
           profile_resp, interview_resp, sink_outcome, completion_requests,
           sink_calls, sink_records, trace, other, processor, http >>

----------------------------------------------------------------------------
(* Bounds of the model *)

\* longest project list the completion service returns
MaxProjects == 4

\* number of distinct readings of datetime.now()
MaxClock == 2

----------------------------------------------------------------------------
(* Python values *)

EmptyDict == [k \in {} |-> << >>]

Get(d, k, default) == IF k \in DOMAIN d THEN d[k] ELSE default

SetItem(d, k, v) == [x \in DOMAIN d \cup {k} |-> IF x = k THEN v ELSE d[x]]

JStr(s) == [t |-> "str", v |-> s]
JList(l) == [t |-> "list", v |-> l]
JNull == [t |-> "null", v |-> << >>]
JNum == [t |-> "num", v |-> << "7" >>]
JBadList == [t |-> "list_nonstr", v |-> << "7" >>]

\* str(x) as an f-string formats it
Format(x) ==
    CASE x.t = "str" -> x.v
      [] x.t = "null" -> << "None" >>
      [] x.t = "num" -> x.v
      [] OTHER -> << "[" >> \o x.v \o << "]" >>

\* bool(x)
Truthy(x) ==
    CASE x.t = "null" -> FALSE
      [] x.t = "num" -> TRUE
      [] OTHER -> x.v # << >>

NoExc == [type |-> "", msg |-> << >>, where |-> ""]

Exc(type, msg, where) == [type |-> type, msg |-> msg, where |-> where]

\* the exception classes that occur; all of them derive from Exception
ExceptionTypes ==
    { "FileNotFoundError", "PDFSyntaxError", "PSEOF", "OpenAIError", "TypeError",
      "AuthenticationError", "APITimeoutError", "RateLimitError",
      "AttributeError", "JSONDecodeError", "APIError", "PermissionError" }

RECURSIVE Interleave(_, _)
Interleave(sep, items) ==
    IF Len(items) <= 1 THEN items
    ELSE << Head(items) >> \o sep \o Interleave(sep, Tail(items))

\* sep.join(x): [exc, val]
Join(sep, x, where) ==
    IF x.t \in {"str", "list"}
    THEN [exc |-> NoExc, val |-> Interleave(sep, x.v)]
    ELSE [exc |-> Exc("TypeError", << "join: not an iterable of str" >>, where),
          val |-> << >>]

----------------------------------------------------------------------------
(* pdf_extractor.py *)

Whitespace == { "\n", " " }

RECURSIVE LStrip(_)
LStrip(s) ==
    IF s # << >> /\ Head(s) \in Whitespace THEN LStrip(Tail(s)) ELSE s

RECURSIVE RStrip(_)
RStrip(s) ==
    IF s # << >> /\ s[Len(s)] \in Whitespace
    THEN RStrip(SubSeq(s, 1, Len(s) - 1)) ELSE s

\* str.strip()
Strip(s) == RStrip(LStrip(s))

\* Path(pdf_path): "." components are dropped
PathOf(locator) == SelectSeq(locator, LAMBDA c : c # ".")

\* the documents on disk: path -> [readable, pages, bad_page]; a page is its
\* text, << >> for a page in which no text is detected; pdfplumber.open fails
\* on a document that is not readable, and extract_text fails on page
\* bad_page (0: on none)
Documents ==
    [p \in { << "cv.pdf" >>, << "dice.pdf" >>, << "scan.pdf" >>,
             << "corrupt.pdf" >>, << "torn.pdf" >> } |->
        CASE p = << "cv.pdf" >> ->
                [readable |-> TRUE, bad_page |-> 0,
                 pages |-> << << "SAMIYA", " ", "NAIK" >>, << >>,
                              << "SolidWorks" >> >>]
          [] p = << "dice.pdf" >> ->
                [readable |-> TRUE, bad_page |-> 0,
                 pages |-> << << "High", " ", "C" >> >>]
          [] p = << "scan.pdf" >> ->
                [readable |-> TRUE, bad_page |-> 0, pages |-> << << >>, << >> >>]
          [] p = << "torn.pdf" >> ->
                [readable |-> TRUE, bad_page |-> 2,
                 pages |-> << << "SAMIYA", " ", "NAIK" >>, << >> >>]
          [] OTHER -> [readable |-> FALSE, bad_page |-> 0, pages |-> << >>]]

Locators ==
    { << "cv.pdf" >>, << ".", "cv.pdf" >>, << "dice.pdf" >>, << "scan.pdf" >>,
      << "corrupt.pdf" >>, << "torn.pdf" >>, << "nowhere.pdf" >> }

RECURSIVE PagesText(_)
PagesText(pages) ==
    IF pages = << >> THEN << >>
    ELSE (IF Head(pages) # << >> THEN Head(pages) \o << "\n" >> ELSE << >>)
         \o PagesText(Tail(pages))

\* what the parser raises on a document: the underlying cause of a failure
ParserError(pdf_path) ==
    IF ~Documents[pdf_path].readable
    THEN Exc("PDFSyntaxError", << "No /Root object" >>, "extract_text_from_pdf")
    ELSE IF Documents[pdf_path].bad_page # 0
    THEN Exc("PSEOF", << "Unexpected EOF" >>, "extract_text_from_pdf")
    ELSE NoExc

\* an extractor that keeps the text of the pages before the one that failed
_extract_with_pdfplumber_Partial(pdf_path) ==
    LET doc == Documents[pdf_path] IN
    IF ~doc.readable
    THEN [exc |-> ParserError(pdf_path), val |-> << >>, opens |-> 1]
    ELSE IF doc.bad_page # 0
    THEN [exc |-> NoExc,
          val |-> Strip(PagesText(SubSeq(doc.pages, 1, doc.bad_page - 1))),
          opens |-> 1]
    ELSE [exc |-> NoExc, val |-> Strip(PagesText(doc.pages)), opens |-> 1]

\* [exc, val, opens]: opens counts the calls of pdfplumber.open
_extract_with_pdfplumber(pdf_path) ==
    IF ParserError(pdf_path) # NoExc
    THEN \* except Exception as e: ... raise
         [exc |-> ParserError(pdf_path), val |-> << >>, opens |-> 1]
    ELSE [exc |-> NoExc, val |-> Strip(PagesText(Documents[pdf_path].pages)),
          opens |-> 1]

\* an extractor without the existence check: a missing document reads as empty
extract_text_from_pdf_NoExistsCheck(locator) ==
    LET pdf_path == PathOf(locator) IN
    IF pdf_path \notin DOMAIN Documents
    THEN [exc |-> NoExc, val |-> << >>, opens |-> 0]
    ELSE _extract_with_pdfplumber(pdf_path)

\* lines 25-39
extract_text_from_pdf(locator) ==
    LET pdf_path == PathOf(locator) IN
    IF pdf_path \notin DOMAIN Documents
    THEN [exc |-> Exc("FileNotFoundError",
                      << "PDF file not found: " >> \o pdf_path,
                      "extract_text_from_pdf"),
          val |-> << >>, opens |-> 0]
    ELSE _extract_with_pdfplumber(pdf_path)

----------------------------------------------------------------------------
(* The completion service (client.chat.completions.create) *)

\* What one completion request yields:
\*   kind "error"       create raises err (auth, timeout, rate limit)
\*   kind "none"        message.content is None
\*   kind "malformed"   the content is not JSON
\*   kind "json_other"  the content is JSON, but not an object
\*   kind "json_object" the content is the JSON object obj
Response(kind, err, obj) == [kind |-> kind, err |-> err, obj |-> obj]

NoResponse == Response("not_called", "", EmptyDict)

ServiceErrors == { "AuthenticationError", "APITimeoutError", "RateLimitError" }

FailedResponses ==
    { Response("error", e, EmptyDict) : e \in ServiceErrors }
    \cup { Response(k, "", EmptyDict) : k \in {"none", "malformed", "json_other"} }

\* openai.OpenAI(): without a key the constructor raises
OpenAI(key_set, where) ==
    IF key_set THEN NoExc
    ELSE Exc("OpenAIError", << "The api_key client option must be set" >>, where)

\* response.choices[0].message.content.strip() followed by json.loads, as the
\* two try blocks of both callers see it: [exc, val]
CompletionJson(resp, where) ==
    CASE resp.kind = "error" ->
            [exc |-> Exc(resp.err, << resp.err >>, where), val |-> EmptyDict,
             isdict |-> FALSE]
      [] resp.kind = "none" ->
            [exc |-> Exc("AttributeError", << "'NoneType' has no attribute 'strip'" >>, where),
             val |-> EmptyDict, isdict |-> FALSE]
      [] resp.kind = "malformed" ->
            [exc |-> Exc("JSONDecodeError", << "Expecting value" >>, where),
             val |-> EmptyDict, isdict |-> FALSE]
      [] resp.kind = "json_other" ->
            [exc |-> NoExc, val |-> EmptyDict, isdict |-> FALSE]
      [] OTHER ->
            [exc |-> NoExc, val |-> resp.obj, isdict |-> TRUE]

----------------------------------------------------------------------------
(* parse_documents.py *)

required_fields ==
    { "name", "email", "skills", "cad_tools", "projects", "personality_type",
      "tone_profile" }

_get_default_profile ==
    [name |-> JStr(<< >>), email |-> JStr(<< >>), skills |-> JList(<< >>),
     cad_tools |-> JList(<< >>), projects |-> JList(<< >>),
     personality_type |-> JStr(<< >>), tone_profile |-> JStr(<< >>)]

\* a validation that also wants every value to be non-empty
validate_profile_Truthy(profile) ==
    \A field \in required_fields :
        field \in DOMAIN profile /\ Truthy(profile[field])

\* the list the loop of validate_profile walks, in its order
required_fields_list ==
    << "name", "email", "skills", "cad_tools", "projects", "personality_type",
       "tone_profile" >>

\* for field in required_fields: if field not in profile: return False
RECURSIVE validate_profile_loop(_, _)
validate_profile_loop(profile, fields) ==
    IF fields = << >> THEN TRUE
    ELSE IF Head(fields) \notin DOMAIN profile THEN FALSE
    ELSE validate_profile_loop(profile, Tail(fields))

validate_profile(profile) == validate_profile_loop(profile, required_fields_list)

\* an extractor that forgets the fallback and hands back an empty mapping
extract_candidate_profile_NoFallback(key_set, resp) ==
    LET where == "extract_candidate_profile"
        client == OpenAI(key_set, where)
        parsed == CompletionJson(resp, where)
    IN  IF client # NoExc
        THEN [exc |-> client, val |-> EmptyDict, requests |-> 0]
        ELSE IF parsed.exc # NoExc \/ ~parsed.isdict
        THEN [exc |-> NoExc, val |-> EmptyDict, requests |-> 1]
        ELSE [exc |-> NoExc, val |-> parsed.val, requests |-> 1]

\* an extractor that repeats a failed request once before falling back
extract_candidate_profile_Retry(key_set, resp) ==
    LET where == "extract_candidate_profile"
        client == OpenAI(key_set, where)
        parsed == CompletionJson(resp, where)
    IN  IF client # NoExc
        THEN [exc |-> client, val |-> EmptyDict, requests |-> 0]
        ELSE IF parsed.exc # NoExc \/ ~parsed.isdict
        THEN [exc |-> NoExc, val |-> _get_default_profile, requests |-> 2]
        ELSE [exc |-> NoExc, val |-> parsed.val, requests |-> 1]

\* [exc, val, requests]: requests counts the completion requests issued
\* an extractor that enforces the "max 3" of its prompt on the projects
extract_candidate_profile_Truncate(key_set, resp) ==
    LET where == "extract_candidate_profile"
        client == OpenAI(key_set, where)
        parsed == CompletionJson(resp, where)
        projects == Get(parsed.val, "projects", JList(<< >>))
    IN  IF client # NoExc
        THEN [exc |-> client, val |-> EmptyDict, requests |-> 0]
        ELSE IF parsed.exc # NoExc \/ ~parsed.isdict
        THEN [exc |-> NoExc, val |-> _get_default_profile, requests |-> 1]
        ELSE IF projects.t = "list" /\ Len(projects.v) > 3
        THEN [exc |-> NoExc,
              val |-> SetItem(parsed.val, "projects",
                              JList(SubSeq(projects.v, 1, 3))),
              requests |-> 1]
        ELSE [exc |-> NoExc, val |-> parsed.val, requests |-> 1]

extract_candidate_profile(key_set, resp) ==
    LET where == "extract_candidate_profile"
        client == OpenAI(key_set, where)
        parsed == CompletionJson(resp, where)
    IN  IF client # NoExc
        THEN [exc |-> client, val |-> EmptyDict, requests |-> 0]
        ELSE IF parsed.exc # NoExc
        THEN \* except json.JSONDecodeError / except Exception
             [exc |-> NoExc, val |-> _get_default_profile, requests |-> 1]
        ELSE IF ~parsed.isdict
        THEN \* parsed_data.get raises AttributeError: except Exception
             [exc |-> NoExc, val |-> _get_default_profile, requests |-> 1]
        ELSE [exc |-> NoExc, val |-> parsed.val, requests |-> 1]

\* project lists of every length up to the bound
ProjectNames(n) == [i \in 1..n |-> ToString(i)]

WellFormedProfile ==
    [name |-> JStr(<< "Asha" >>), email |-> JStr(<< "asha@example.com" >>),
     skills |-> JList(<< "CAM", "Python" >>),
     cad_tools |-> JList(<< "SolidWorks" >>),
     projects |-> JList(ProjectNames(2)),
     personality_type |-> JStr(<< "High C" >>),
     tone_profile |-> JStr(<< "warm" >>)]

Restrict(d, keys) == [k \in keys |-> d[k]]

\* the JSON objects the completion service answers a profile request with:
\* well-formed ones, ones with a field of an unexpected type, ones with
\* missing or extra keys
ProfileObjects ==
    { [WellFormedProfile EXCEPT !.projects = JList(ProjectNames(n))] :
        n \in 0..MaxProjects }
    \cup { [WellFormedProfile EXCEPT !.skills = x] :
             x \in { JList(<< >>), JNull, JBadList, JStr(<< "CAM" >>) } }
    \cup { [WellFormedProfile EXCEPT !.cad_tools = JNum],
           [WellFormedProfile EXCEPT !.projects = JNull],
           [WellFormedProfile EXCEPT !.name = JStr(<< >>)],
           [WellFormedProfile EXCEPT !.name = JNull],
           [WellFormedProfile EXCEPT !.personality_type = JStr(<< >>)],
           [WellFormedProfile EXCEPT !.tone_profile = JStr(<< >>)],
           _get_default_profile,
           SetItem(WellFormedProfile, "phone", JStr(<< "98" >>)) }
    \cup { Restrict(WellFormedProfile, required_fields \ {k}) : k \in required_fields }
    \cup { Restrict(WellFormedProfile, ks) : ks \in { {}, {"name"} } }
    \cup { Restrict([WellFormedProfile EXCEPT !.skills = JNull],
                    required_fields \ {"name"}) }

ProfileResponses ==
    FailedResponses \cup { Response("json_object", "", o) : o \in ProfileObjects }

----------------------------------------------------------------------------
(* interview_prompt.py *)

interview_required_fields == { "chat_log", "answers", "memories", "summary_notes" }

AnswerTopics ==
    { "location", "education_status", "internship_work", "cad_tools",
      "role_preference", "relocation", "commitment", "salary_expectation",
      "factory_visit_interest" }

\* a validation that also wants the metadata
validate_interview_data_WithMetadata(interview_data) ==
    \A field \in interview_required_fields \cup { "metadata" } :
        field \in DOMAIN interview_data

\* the list the loop of validate_interview_data walks, in its order
interview_required_fields_list ==
    << "chat_log", "answers", "memories", "summary_notes" >>

\* for field in required_fields: if field not in interview_data: return False
RECURSIVE validate_interview_data_loop(_, _)
validate_interview_data_loop(interview_data, fields) ==
    IF fields = << >> THEN TRUE
    ELSE IF Head(fields) \notin DOMAIN interview_data THEN FALSE
    ELSE validate_interview_data_loop(interview_data, Tail(fields))

validate_interview_data(interview_data) ==
    validate_interview_data_loop(interview_data, interview_required_fields_list)

FailureNote(name_) ==
    << "Interview generation failed for " >> \o Format(name_)
        \o << ". Manual review required." >>

\* a default record whose summary is not the text of its memory
_get_default_interview_data_OtherSummary(profile, now) ==
    LET name_ == Get(profile, "name", JStr(<< "Candidate" >>)) IN
    [chat_log |->
        << [role |-> "Anu", message |-> << "Hi " >> \o Format(name_)],
           [role |-> "Candidate", message |-> << "Hi Anu! Nice to meet you too." >>] >>,
     answers |-> [topic \in AnswerTopics |-> << >>],
     memories |-> << FailureNote(name_) >>,
     summary_notes |-> << "Interview completed for " >> \o Format(name_),
     metadata |->
        [generated_at |-> now,
         candidate_name |-> name_,
         error |-> << "Interview generation failed" >>,
         version |-> << "Anu v2 - Fallback" >>]]

\* a default record that writes the time of the failure into its summary
_get_default_interview_data_Stamped(profile, now) ==
    LET name_ == Get(profile, "name", JStr(<< "Candidate" >>)) IN
    [chat_log |->
        << [role |-> "Anu",
            message |-> << "Hi " >> \o Format(name_)
                        \o << "! I'm Anu from Kinara. So excited to chat with you today!" >>],
           [role |-> "Candidate", message |-> << "Hi Anu! Nice to meet you too." >>] >>,
     answers |-> [topic \in AnswerTopics |-> << >>],
     memories |-> << FailureNote(name_) >>,
     summary_notes |-> FailureNote(name_) \o << " at ", ToString(now) >>,
     metadata |->
        [generated_at |-> now,
         candidate_name |-> name_,
         error |-> << "Interview generation failed" >>,
         version |-> << "Anu v2 - Fallback" >>]]

_get_default_interview_data(profile, now) ==
    LET name_ == Get(profile, "name", JStr(<< "Candidate" >>)) IN
    [chat_log |->
        << [role |-> "Anu",
            message |-> << "Hi " >> \o Format(name_)
                        \o << "! I'm Anu from Kinara. So excited to chat with you today!" >>],
           [role |-> "Candidate", message |-> << "Hi Anu! Nice to meet you too." >>] >>,
     answers |-> [topic \in AnswerTopics |-> << >>],
     memories |-> << FailureNote(name_) >>,
     summary_notes |-> FailureNote(name_),
     metadata |->
        [generated_at |-> now,
         candidate_name |-> name_,
         error |-> << "Interview generation failed" >>,
         version |-> << "Anu v2 - Fallback" >>]]

\* metadata attached only when the parsed record brings none
SuccessMetadata_KeepExisting(parsed, now, name_, personality_type, tone_profile) ==
    IF "metadata" \in DOMAIN parsed THEN parsed
    ELSE SetItem(parsed, "metadata",
            [generated_at |-> now,
             candidate_name |-> name_,
             personality_type |-> personality_type,
             tone_profile |-> tone_profile,
             version |-> << "Anu v2 - Conversational Mentor" >>])

\* lines 141-148: the metadata attached to a parsed record
SuccessMetadata(parsed, now, name_, personality_type, tone_profile) ==
    SetItem(parsed, "metadata",
        [generated_at |-> now,
         candidate_name |-> name_,
         personality_type |-> personality_type,
         tone_profile |-> tone_profile,
         version |-> << "Anu v2 - Conversational Mentor" >>])

\* lines 150-156: the fields a parsed record is completed with
EnsureFields(parsed, name_) ==
    LET d1 == IF "memories" \notin DOMAIN parsed
              THEN SetItem(parsed, "memories", << >>) ELSE parsed
        d2 == IF "answers" \notin DOMAIN d1
              THEN SetItem(d1, "answers", EmptyDict) ELSE d1
        d3 == IF "summary_notes" \notin DOMAIN d2
              THEN SetItem(d2, "summary_notes",
                       << "Interview completed for " >> \o Format(name_)
                           \o << ". Manual review recommended." >>)
              ELSE d2
    IN  d3

\* [exc, val, requests]
generate_interview_chat(profile, key_set, resp, now) ==
    LET where == "generate_interview_chat"
        client == OpenAI(key_set, where)
        name_ == Get(profile, "name", JStr(<< "Candidate" >>))
        personality_type == Get(profile, "personality_type", JStr(<< "Unknown" >>))
        tone_profile == Get(profile, "tone_profile", JStr(<< "warm and curious" >>))
        skills == Get(profile, "skills", JList(<< >>))
        cad_tools == Get(profile, "cad_tools", JList(<< >>))
        projects == Get(profile, "projects", JList(<< >>))
        joins == << Join(<< ", " >>, skills, where), Join(<< ", " >>, cad_tools, where),
                    Join(<< ", " >>, projects, where) >>
        failed == { i \in 1..3 : joins[i].exc # NoExc }
        parsed == CompletionJson(resp, where)
    IN  IF client # NoExc
        THEN [exc |-> client, val |-> EmptyDict, requests |-> 0]
        ELSE IF failed # {}
        THEN \* user_msg is built outside the try block
             [exc |-> joins[CHOOSE i \in failed : \A j \in failed : i <= j].exc,
              val |-> EmptyDict, requests |-> 0]
        ELSE IF parsed.exc # NoExc \/ ~parsed.isdict
        THEN \* except json.JSONDecodeError / except Exception (item assignment
             \* on a value that is no dict raises TypeError)
             [exc |-> NoExc, val |-> _get_default_interview_data(profile, now),
              requests |-> 1]
        ELSE [exc |-> NoExc,
              val |-> EnsureFields(
                         SuccessMetadata(parsed.val, now, name_, personality_type,
                                         tone_profile), name_),
              requests |-> 1]

WellFormedInterview ==
    [chat_log |->
        << [role |-> "Anu", message |-> << "Where are you based?" >>],
           [role |-> "Candidate", message |-> << "I'm in Bengaluru." >>],
           [role |-> "Anu", message |-> << "Love that city!" >>] >>,
     answers |-> [topic \in AnswerTopics |-> << topic >>],
     memories |-> << << "Enjoys hands-on roles." >>, << "Took initiative." >> >>,
     summary_notes |-> << "Thoughtful, technically sharp candidate." >>]

\* the JSON objects the completion service answers an interview request with
InterviewObjects ==
    { Restrict(WellFormedInterview, interview_required_fields \ {k}) :
        k \in interview_required_fields }
    \cup { WellFormedInterview,
           EmptyDict,
           Restrict(WellFormedInterview, {"chat_log"}),
           [WellFormedInterview EXCEPT !.memories = << >>, !.summary_notes = << >>],
           SetItem(WellFormedInterview, "metadata",
                   [error |-> << "model says so" >>, version |-> << "0" >>]) }

InterviewResponses ==
    FailedResponses \cup { Response("json_object", "", o) : o \in InterviewObjects }

----------------------------------------------------------------------------
(* supabase_insert.py *)

None == [t |-> "none", rows |-> << >>]

Data(rows) == [t |-> "data", rows |-> rows]

\* bool(supabase_result)
Inserted(r) == r.t = "data" /\ r.rows # << >>

\* how the sink behaves once the credentials are there: create_client raises,
\* insert(...).execute() raises, returns no rows, or returns the inserted row
SinkOutcomes == { "client_error", "insert_raises", "empty_data", "inserted" }

\* SUPABASE_URL / SUPABASE_KEY missing, or create_client raising: None
\* a client that is built without looking at the credentials
get_supabase_client_NoCredentialsCheck(creds, outcome) == outcome # "client_error"

get_supabase_client(creds, outcome) == creds /\ outcome # "client_error"

\* a record that always carries the four optional fields
InsertData_AllFields(profile, chat, cv, dice, joined) ==
    [name |-> Get(profile, "name", JStr(<< >>)),
     email |-> Get(profile, "email", JStr(<< >>)),
     cv_url |-> cv,
     dice_url |-> dice,
     skills |-> joined,
     status |-> << "pending" >>,
     personality_type |-> Get(profile, "personality_type", JStr(<< >>)),
     tone_profile |-> Get(profile, "tone_profile", JStr(<< >>)),
     summary_notes |-> Get(chat, "summary_notes", << >>),
     memories |-> Get(chat, "memories", << >>)]

\* lines 64-82: the record built for insertion
InsertData(profile, chat, cv, dice, joined) ==
    LET base == [name |-> Get(profile, "name", JStr(<< >>)),
                 email |-> Get(profile, "email", JStr(<< >>)),
                 cv_url |-> cv,
                 dice_url |-> dice,
                 skills |-> joined,
                 status |-> << "pending" >>]
        d1 == IF Truthy(Get(profile, "personality_type", JNull))
              THEN SetItem(base, "personality_type", profile["personality_type"])
              ELSE base
        d2 == IF Truthy(Get(profile, "tone_profile", JNull))
              THEN SetItem(d1, "tone_profile", profile["tone_profile"])
              ELSE d1
        d3 == IF Get(chat, "summary_notes", << >>) # << >>
              THEN SetItem(d2, "summary_notes", chat["summary_notes"])
              ELSE d2
        d4 == IF Get(chat, "memories", << >>) # << >>
              THEN SetItem(d3, "memories", chat["memories"])
              ELSE d3
    IN  d4

\* a sink call that lets the insert error through
insert_candidate_to_supabase_Propagates(profile, chat, cv, dice, creds, outcome) ==
    LET joined == Join(<< ", " >>, Get(profile, "skills", JList(<< >>)),
                       "insert_candidate_to_supabase")
        data == InsertData(profile, chat, cv, dice, joined.val)
    IN  IF ~get_supabase_client(creds, outcome)
        THEN [exc |-> NoExc, val |-> None, sent |-> << >>]
        ELSE IF outcome = "insert_raises"
        THEN [exc |-> Exc("APIError", << "insert failed" >>,
                          "insert_candidate_to_supabase"),
              val |-> None, sent |-> << data >>]
        ELSE IF outcome = "empty_data"
        THEN [exc |-> NoExc, val |-> Data(<< >>), sent |-> << data >>]
        ELSE [exc |-> NoExc, val |-> Data(<< data >>), sent |-> << data >>]

\* [exc, val, sent]: sent holds the record handed to insert, if one was
insert_candidate_to_supabase(profile, chat, cv, dice, creds, outcome) ==
    LET joined == Join(<< ", " >>, Get(profile, "skills", JList(<< >>)),
                       "insert_candidate_to_supabase")
        data == InsertData(profile, chat, cv, dice, joined.val)
    IN  IF ~get_supabase_client(creds, outcome)
        THEN [exc |-> NoExc, val |-> None, sent |-> << >>]
        ELSE IF joined.exc # NoExc
        THEN \* except Exception (line 108)
             [exc |-> NoExc, val |-> None, sent |-> << >>]
        ELSE IF outcome = "insert_raises"
        THEN \* except Exception as insert_error (line 95)
             [exc |-> NoExc, val |-> None, sent |-> << data >>]
        ELSE IF outcome = "empty_data"
        THEN [exc |-> NoExc, val |-> Data(<< >>), sent |-> << data >>]
        ELSE [exc |-> NoExc, val |-> Data(<< data >>), sent |-> << data >>]

----------------------------------------------------------------------------
(* main.py: run_pipeline *)

Names == { << "Test Candidate" >> }

Emails == { << "test@example.com" >> }

CvLocators ==
    { l \in Locators : PathOf(l) \in { << "cv.pdf" >>, << "scan.pdf" >>,
                                       << "corrupt.pdf" >>, << "torn.pdf" >>,
                                       << "nowhere.pdf" >> } }

DiceLocators ==
    { l \in Locators : PathOf(l) \in { << "dice.pdf" >>, << "corrupt.pdf" >>,
                                       << "nowhere.pdf" >> } }

\* no second invocation has been started
NotStarted == [s |-> [pc |-> "not_started"]]

\* process_candidate_documents is not in use
NoProcessor == [generate_interview |-> FALSE, output_path |-> "", files |-> << >>]

\* run_pipeline was not called through the HTTP operation
NoRequest == [body |-> [kind |-> "none"], status |-> 0, response |-> EmptyDict]

Init ==
    /\ other = NotStarted
    /\ processor = NoProcessor
    /\ http = NoRequest
    /\ pc = "extract_cv"
    /\ name \in Names
    /\ email \in Emails
    /\ cv_url \in CvLocators
    /\ dice_url \in DiceLocators
    /\ push_supabase \in BOOLEAN
    /\ openai_key \in BOOLEAN
    /\ supabase_creds \in BOOLEAN
    /\ cv_text = << >>
    /\ dice_text = << >>
    /\ profile_data = EmptyDict
    /\ is_valid = FALSE
    /\ chat_data = EmptyDict
    /\ interview_valid = FALSE
    /\ supabase_result = None
    /\ result = EmptyDict
    /\ exc = NoExc
    /\ profile_resp = NoResponse
    /\ interview_resp = NoResponse
    /\ sink_outcome = "not_called"
    /\ completion_requests = 0
    /\ sink_calls = 0
    /\ sink_records = << >>
    /\ trace = << >>

\* a handler that catches the not-found error only
run_pipeline_except_NotFoundOnly(e) ==
    [caught |-> e.type = "FileNotFoundError",
     result |-> [status |-> "error",
                 error |-> e.msg,
                 profile |-> EmptyDict,
                 interview |-> EmptyDict,
                 summary_notes |-> << >>,
                 memories |-> << >>]]

\* lines 98-107: except Exception as e
run_pipeline_except(e) ==
    [caught |-> e.type \in ExceptionTypes,
     result |-> [status |-> "error",
                 error |-> e.msg,
                 profile |-> EmptyDict,
                 interview |-> EmptyDict,
                 summary_notes |-> << >>,
                 memories |-> << >>]]

\* a success result that also carries an (empty) error key
run_pipeline_result_WithError(profile, chat) ==
    [profile |-> profile,
     interview |-> chat,
     summary_notes |-> Get(chat, "summary_notes", << >>),
     memories |-> Get(chat, "memories", << >>),
     status |-> "success",
     error |-> << >>]

\* a success result that looks the copies up under the wrong keys
run_pipeline_result_WrongKeys(profile, chat) ==
    [profile |-> profile,
     interview |-> chat,
     summary_notes |-> Get(chat, "summary", << >>),
     memories |-> Get(chat, "memory", << >>),
     status |-> "success"]

\* lines 86-93
run_pipeline_result(profile, chat) ==
    [profile |-> profile,
     interview |-> chat,
     summary_notes |-> Get(chat, "summary_notes", << >>),
     memories |-> Get(chat, "memories", << >>),
     status |-> "success"]

\* an exception that no handler takes: the invocation never returns
Raise_Unhandled(e) ==
    /\ exc' = e
    /\ pc' = "raised"
    /\ result' = result

\* an exception raised inside the try block at the current step
Raise(e) ==
    /\ exc' = e
    /\ IF run_pipeline_except(e).caught
       THEN pc' = "done" /\ result' = run_pipeline_except(e).result
       ELSE pc' = "raised" /\ result' = result

\* a statement of this invocation: the locals of another one are out of reach
Step(step) ==
    /\ trace' = Append(trace, step)
    /\ other' = other
    /\ processor' = processor
    /\ http' = http

\* line 48
ExtractCV ==
    /\ pc = "extract_cv"
    /\ Step("extract_cv")
    /\ LET r == extract_text_from_pdf(cv_url) IN
       IF r.exc # NoExc
       THEN Raise(r.exc) /\ UNCHANGED cv_text
       ELSE cv_text' = r.val /\ pc' = "extract_dice" /\ UNCHANGED << result, exc >>
    /\ UNCHANGED << name, email, cv_url, dice_url, push_supabase, openai_key,
                    supabase_creds, dice_text, profile_data, is_valid, chat_data,
                    interview_valid, supabase_result, profile_resp,
                    interview_resp, sink_outcome, completion_requests,
                    sink_calls, sink_records >>

\* line 49
ExtractDice ==
    /\ pc = "extract_dice"
    /\ Step("extract_dice")
    /\ LET r == extract_text_from_pdf(dice_url) IN
       IF r.exc # NoExc
       THEN Raise(r.exc) /\ UNCHANGED dice_text
       ELSE dice_text' = r.val /\ pc' = "extract_profile" /\ UNCHANGED << result, exc >>
    /\ UNCHANGED << name, email, cv_url, dice_url, push_supabase, openai_key,
                    supabase_creds, cv_text, profile_data, is_valid, chat_data,
                    interview_valid, supabase_result, profile_resp,
                    interview_resp, sink_outcome, completion_requests,
                    sink_calls, sink_records >>

\* line 53
ExtractProfile ==
    /\ pc = "extract_profile"
    /\ Step("extract_profile")
    /\ \E resp \in ProfileResponses :
         LET r == extract_candidate_profile(openai_key, resp) IN
         /\ profile_resp' = IF r.requests > 0 THEN resp ELSE NoResponse
         /\ completion_requests' = completion_requests + r.requests
         /\ IF r.exc # NoExc
            THEN Raise(r.exc) /\ UNCHANGED profile_data
            ELSE /\ profile_data' = r.val
                 /\ pc' = "validate_profile"
                 /\ UNCHANGED << result, exc >>
    /\ UNCHANGED << name, email, cv_url, dice_url, push_supabase, openai_key,
                    supabase_creds, cv_text, dice_text, is_valid, chat_data,
                    interview_valid, supabase_result, interview_resp,
                    sink_outcome, sink_calls, sink_records >>

\* lines 57-60
ValidateProfile ==
    /\ pc = "validate_profile"
    /\ Step("validate_profile")
    /\ is_valid' = validate_profile(profile_data)
    /\ pc' = "generate_interview"
    /\ UNCHANGED << name, email, cv_url, dice_url, push_supabase, openai_key,
                    supabase_creds, cv_text, dice_text, profile_data, chat_data,
                    interview_valid, supabase_result, result, exc, profile_resp,
                    interview_resp, sink_outcome, completion_requests,
                    sink_calls, sink_records >>

\* line 64
GenerateInterview ==
    /\ pc = "generate_interview"
    /\ Step("generate_interview")
    /\ \E resp \in InterviewResponses, now \in 1..MaxClock :
         LET r == generate_interview_chat(profile_data, openai_key, resp, now) IN
         /\ interview_resp' = IF r.requests > 0 THEN resp ELSE NoResponse
         /\ completion_requests' = completion_requests + r.requests
         /\ IF r.exc # NoExc
            THEN Raise(r.exc) /\ UNCHANGED chat_data
            ELSE /\ chat_data' = r.val
                 /\ pc' = "validate_interview"
                 /\ UNCHANGED << result, exc >>
    /\ UNCHANGED << name, email, cv_url, dice_url, push_supabase, openai_key,
                    supabase_creds, cv_text, dice_text, profile_data, is_valid,
                    interview_valid, supabase_result, profile_resp,
                    sink_outcome, sink_calls, sink_records >>

\* a pipeline that calls the sink whether or not it was asked to
AfterValidation_AlwaysPersist(push) == "persist"

\* line 72: if push_supabase
AfterValidation(push) == IF push THEN "persist" ELSE "assemble"

\* lines 66-72
ValidateInterview ==
    /\ pc = "validate_interview"
    /\ Step("validate_interview")
    /\ interview_valid' = validate_interview_data(chat_data)
    /\ pc' = AfterValidation(push_supabase)
    /\ UNCHANGED << name, email, cv_url, dice_url, push_supabase, openai_key,
                    supabase_creds, cv_text, dice_text, profile_data, is_valid,
                    chat_data, supabase_result, result, exc, profile_resp,
                    interview_resp, sink_outcome, completion_requests,
                    sink_calls, sink_records >>

\* lines 73-84
Persist ==
    /\ pc = "persist"
    /\ Step("persist")
    /\ \E outcome \in SinkOutcomes :
         LET r == insert_candidate_to_supabase(profile_data, chat_data, cv_url,
                                               dice_url, supabase_creds, outcome)
         IN
         /\ sink_outcome' = IF supabase_creds THEN outcome ELSE "no_credentials"
         /\ sink_calls' = sink_calls + 1
         /\ sink_records' = sink_records \o r.sent
         /\ IF r.exc # NoExc
            THEN Raise(r.exc) /\ UNCHANGED supabase_result
            ELSE /\ supabase_result' = r.val
                 /\ pc' = "assemble"
                 /\ UNCHANGED << result, exc >>
    /\ UNCHANGED << name, email, cv_url, dice_url, push_supabase, openai_key,
                    supabase_creds, cv_text, dice_text, profile_data, is_valid,
                    chat_data, interview_valid, profile_resp, interview_resp,
                    completion_requests >>

\* lines 86-96
Assemble ==
    /\ pc = "assemble"
    /\ Step("assemble")
    /\ result' = run_pipeline_result(profile_data, chat_data)
    /\ pc' = "done"
    /\ UNCHANGED << name, email, cv_url, dice_url, push_supabase, openai_key,
                    supabase_creds, cv_text, dice_text, profile_data, is_valid,
                    chat_data, interview_valid, supabase_result, exc,
                    profile_resp, interview_resp, sink_outcome,
                    completion_requests, sink_calls, sink_records >>

Next ==
    \/ ExtractCV
    \/ ExtractDice
    \/ ExtractProfile
    \/ ValidateProfile
    \/ GenerateInterview
    \/ ValidateInterview
    \/ Persist
    \/ Assemble

Spec == Init /\ [][Next]_vars

----------------------------------------------------------------------------
(* One invocation of run_pipeline as a function of its own local variables *)

\* the local variables of an invocation when its try block is entered
Invocation(name_, email_, cv, dice, push) ==
    [pc |-> "extract_cv", name |-> name_, email |-> email_, cv_url |-> cv,
     dice_url |-> dice, push_supabase |-> push, cv_text |-> << >>,
     dice_text |-> << >>, profile_data |-> EmptyDict, is_valid |-> FALSE,
     chat_data |-> EmptyDict, interview_valid |-> FALSE,
     supabase_result |-> None, result |-> EmptyDict, exc |-> NoExc]

\* what the external calls of one invocation answer
Answers(presp, iresp, now, outcome) ==
    [profile_resp |-> presp, interview_resp |-> iresp, now |-> now,
     outcome |-> outcome]

\* an exception raised inside the try block of invocation s
Raised(s, e) ==
    IF run_pipeline_except(e).caught
    THEN [s EXCEPT !.exc = e, !.pc = "done",
                   !.result = run_pipeline_except(e).result]
    ELSE [s EXCEPT !.exc = e, !.pc = "raised"]

\* an invocation whose profile lives in a module-level variable that every
\* invocation assigns and reads
ProfileOf_Global(s) == profile_data

\* an invocation that puts the name and the email of the request into the
\* profile it works with
ProfileOf_Requested(s) ==
    SetItem(SetItem(s.profile_data, "name", JStr(s.name)), "email", JStr(s.email))

\* lines 53-64: profile_data is a local name of run_pipeline
ProfileOf(s) == s.profile_data

\* the next statement of invocation s
run_pipeline_step(s, key_set, creds, a) ==
    CASE s.pc = "extract_cv" ->
           LET r == extract_text_from_pdf(s.cv_url) IN
           IF r.exc # NoExc THEN Raised(s, r.exc)
           ELSE [s EXCEPT !.cv_text = r.val, !.pc = "extract_dice"]
      [] s.pc = "extract_dice" ->
           LET r == extract_text_from_pdf(s.dice_url) IN
           IF r.exc # NoExc THEN Raised(s, r.exc)
           ELSE [s EXCEPT !.dice_text = r.val, !.pc = "extract_profile"]
      [] s.pc = "extract_profile" ->
           LET r == extract_candidate_profile(key_set, a.profile_resp) IN
           IF r.exc # NoExc THEN Raised(s, r.exc)
           ELSE [s EXCEPT !.profile_data = r.val, !.pc = "validate_profile"]
      [] s.pc = "validate_profile" ->
           [s EXCEPT !.is_valid = validate_profile(ProfileOf(s)),
                     !.pc = "generate_interview"]
      [] s.pc = "generate_interview" ->
           LET r == generate_interview_chat(ProfileOf(s), key_set,
                                            a.interview_resp, a.now)
           IN
           IF r.exc # NoExc THEN Raised(s, r.exc)
           ELSE [s EXCEPT !.chat_data = r.val, !.pc = "validate_interview"]
      [] s.pc = "validate_interview" ->
           [s EXCEPT !.interview_valid = validate_interview_data(s.chat_data),
                     !.pc = AfterValidation(s.push_supabase)]
      [] s.pc = "persist" ->
           LET r == insert_candidate_to_supabase(ProfileOf(s), s.chat_data,
                                                 s.cv_url, s.dice_url, creds,
                                                 a.outcome)
           IN
           IF r.exc # NoExc THEN Raised(s, r.exc)
           ELSE [s EXCEPT !.supabase_result = r.val, !.pc = "assemble"]
      [] s.pc = "assemble" ->
           [s EXCEPT !.result = run_pipeline_result(ProfileOf(s), s.chat_data),
                     !.pc = "done"]
      [] OTHER -> s

\* the invocation run on its own from s to its return
RECURSIVE run_pipeline(_, _, _, _)
run_pipeline(s, key_set, creds, a) ==
    IF s.pc \in { "done", "raised" } THEN s
    ELSE run_pipeline(run_pipeline_step(s, key_set, creds, a), key_set, creds, a)

----------------------------------------------------------------------------
(* Two invocations at the same time: two requests served by two workers *)

\* the arguments of the second invocation
OtherInputs ==
    { Invocation(<< "Other Candidate" >>, << "other@example.com" >>, cv, dice, push) :
        cv \in { << "cv.pdf" >>, << "nowhere.pdf" >> },
        dice \in { << "dice.pdf" >> },
        push \in { TRUE } }

\* what its external calls answer
OtherAnswers ==
    { Answers(presp, iresp, now, outcome) :
        presp \in { Response("json_object", "", WellFormedProfile),
                    Response("error", "RateLimitError", EmptyDict) },
        iresp \in { Response("json_object", "", WellFormedInterview) },
        now \in { MaxClock },
        outcome \in { "inserted" } }

InitPair ==
    /\ other \in [s : OtherInputs, a : OtherAnswers]
    /\ processor = NoProcessor
    /\ http = NoRequest
    /\ pc = "extract_cv"
    /\ name \in Names
    /\ email \in Emails
    /\ cv_url = << "cv.pdf" >>
    /\ dice_url = << "dice.pdf" >>
    /\ push_supabase = TRUE
    /\ openai_key = TRUE
    /\ supabase_creds = TRUE
    /\ cv_text = << >>
    /\ dice_text = << >>
    /\ profile_data = EmptyDict
    /\ is_valid = FALSE
    /\ chat_data = EmptyDict
    /\ interview_valid = FALSE
    /\ supabase_result = None
    /\ result = EmptyDict
    /\ exc = NoExc
    /\ profile_resp = NoResponse
    /\ interview_resp = NoResponse
    /\ sink_outcome = "not_called"
    /\ completion_requests = 0
    /\ sink_calls = 0
    /\ sink_records = << >>
    /\ trace = << >>

\* the second invocation executes its next statement; the table of the sink
\* is the one thing both invocations write to
OtherStep ==
    /\ other.s.pc \notin { "not_started", "done", "raised" }
    /\ other' = [other EXCEPT
                   !.s = run_pipeline_step(other.s, openai_key, supabase_creds,
                                           other.a)]
    /\ sink_records' =
         IF other.s.pc = "persist"
         THEN sink_records
              \o insert_candidate_to_supabase(ProfileOf(other.s),
                                              other.s.chat_data, other.s.cv_url,
                                              other.s.dice_url, supabase_creds,
                                              other.a.outcome).sent
         ELSE sink_records
    /\ UNCHANGED << pc, name, email, cv_url, dice_url, push_supabase,
                    openai_key, supabase_creds, cv_text, dice_text,
                    profile_data, is_valid, chat_data, interview_valid,
                    supabase_result, result, exc, profile_resp, interview_resp,
                    sink_outcome, completion_requests, sink_calls, trace,
                    processor, http >>

NextPair == Next \/ OtherStep

PairSpec == InitPair /\ [][NextPair]_vars

----------------------------------------------------------------------------
(* validate_interview_data called on its own, as test_structure.py does *)

\* a record with every value emptied
EmptiedInterview ==
    [chat_log |-> << >>, answers |-> EmptyDict, memories |-> << >>,
     summary_notes |-> << >>, metadata |-> EmptyDict]

\* the records validate_interview_data is called with: every choice of keys
\* with filled and with emptied values, and the default record of every profile
InterviewRecords ==
    { Restrict(full, ks) :
        full \in { SetItem(WellFormedInterview, "metadata",
                           [version |-> << "Anu v2" >>]),
                   EmptiedInterview },
        ks \in SUBSET (interview_required_fields \cup { "metadata" }) }
    \cup { _get_default_interview_data(p, 1) :
             p \in ProfileObjects \cup { [name |-> JStr(<< "Test User" >>)] } }

InitValidateInterview ==
    /\ other = NotStarted
    /\ processor = NoProcessor
    /\ http = NoRequest
    /\ pc = "call_validate_interview_data"
    /\ chat_data \in InterviewRecords
    /\ name \in Names
    /\ email \in Emails
    /\ cv_url = << "cv.pdf" >>
    /\ dice_url = << "dice.pdf" >>
    /\ push_supabase = FALSE
    /\ openai_key = TRUE
    /\ supabase_creds = TRUE
    /\ cv_text = << >>
    /\ dice_text = << >>
    /\ profile_data = EmptyDict
    /\ is_valid = FALSE
    /\ interview_valid = FALSE
    /\ supabase_result = None
    /\ result = EmptyDict
    /\ exc = NoExc
    /\ profile_resp = NoResponse
    /\ interview_resp = NoResponse
    /\ sink_outcome = "not_called"
    /\ completion_requests = 0
    /\ sink_calls = 0
    /\ sink_records = << >>
    /\ trace = << >>

\* validate_interview_data(default_data)
CallValidateInterview ==
    /\ pc = "call_validate_interview_data"
    /\ interview_valid' = validate_interview_data(chat_data)
    /\ pc' = "returned_validate_interview_data"
    /\ UNCHANGED << name, email, cv_url, dice_url, push_supabase, openai_key,
                    supabase_creds, cv_text, dice_text, profile_data, is_valid,
                    chat_data, supabase_result, result, exc, profile_resp,
                    interview_resp, sink_outcome, completion_requests,
                    sink_calls, sink_records, trace, other, processor, http >>

ValidateInterviewSpec == InitValidateInterview /\ [][CallValidateInterview]_vars

----------------------------------------------------------------------------
(* main.py: DocumentProcessor.process_candidate_documents *)

\* output_path: none given, a writable file, a file that cannot be written
OutputPaths == { "", "out.json", "/readonly/out.json" }

\* os.path.basename
Basename(locator) == << locator[Len(locator)] >>

\* lines 112-123: the constructor has made sure that an API key is there
InitProcessor ==
    /\ pc = "dp_extract_texts"
    /\ processor \in [generate_interview : BOOLEAN, output_path : OutputPaths,
                      files : { << >> }]
    /\ other = NotStarted
    /\ http = NoRequest
    /\ name \in Names
    /\ email \in Emails
    /\ cv_url \in CvLocators
    /\ dice_url \in DiceLocators
    /\ push_supabase \in BOOLEAN
    /\ openai_key = TRUE
    /\ supabase_creds \in BOOLEAN
    /\ cv_text = << >>
    /\ dice_text = << >>
    /\ profile_data = EmptyDict
    /\ is_valid = FALSE
    /\ chat_data = EmptyDict
    /\ interview_valid = FALSE
    /\ supabase_result = None
    /\ result = EmptyDict
    /\ exc = NoExc
    /\ profile_resp = NoResponse
    /\ interview_resp = NoResponse
    /\ sink_outcome = "not_called"
    /\ completion_requests = 0
    /\ sink_calls = 0
    /\ sink_records = << >>
    /\ trace = << >>

\* lines 190-192: except Exception as e: ... raise
DPRaise(e) ==
    /\ exc' = e
    /\ pc' = "dp_raised"
    /\ result' = result

DPStep(step) ==
    /\ trace' = Append(trace, step)
    /\ other' = other
    /\ http' = http

\* line 141: extract_cv_and_dice_texts
DPExtractTexts ==
    /\ pc = "dp_extract_texts"
    /\ DPStep("dp_extract_texts")
    /\ LET cv == extract_text_from_pdf(cv_url)
           dice == extract_text_from_pdf(dice_url)
       IN  IF cv.exc # NoExc
           THEN DPRaise(cv.exc) /\ UNCHANGED << cv_text, dice_text >>
           ELSE IF dice.exc # NoExc
           THEN DPRaise(dice.exc) /\ UNCHANGED << cv_text, dice_text >>
           ELSE /\ cv_text' = cv.val
                /\ dice_text' = dice.val
                /\ pc' = "dp_extract_profile"
                /\ UNCHANGED << result, exc >>
    /\ UNCHANGED << name, email, cv_url, dice_url, push_supabase, openai_key,
                    supabase_creds, profile_data, is_valid, chat_data,
                    interview_valid, supabase_result, profile_resp,
                    interview_resp, sink_outcome, completion_requests,
                    sink_calls, sink_records, processor >>

\* line 145
DPExtractProfile ==
    /\ pc = "dp_extract_profile"
    /\ DPStep("dp_extract_profile")
    /\ \E resp \in ProfileResponses :
         LET r == extract_candidate_profile(openai_key, resp) IN
         /\ profile_resp' = IF r.requests > 0 THEN resp ELSE NoResponse
         /\ completion_requests' = completion_requests + r.requests
         /\ IF r.exc # NoExc
            THEN DPRaise(r.exc) /\ UNCHANGED profile_data
            ELSE /\ profile_data' = r.val
                 /\ pc' = "dp_validate_profile"
                 /\ UNCHANGED << result, exc >>
    /\ UNCHANGED << name, email, cv_url, dice_url, push_supabase, openai_key,
                    supabase_creds, cv_text, dice_text, is_valid, chat_data,
                    interview_valid, supabase_result, interview_resp,
                    sink_outcome, sink_calls, sink_records, processor >>

\* lines 149-152
DPValidateProfile ==
    /\ pc = "dp_validate_profile"
    /\ DPStep("dp_validate_profile")
    /\ is_valid' = validate_profile(profile_data)
    /\ pc' = "dp_generate_interview"
    /\ UNCHANGED << name, email, cv_url, dice_url, push_supabase, openai_key,
                    supabase_creds, cv_text, dice_text, profile_data, chat_data,
                    interview_valid, supabase_result, result, exc, profile_resp,
                    interview_resp, sink_outcome, completion_requests,
                    sink_calls, sink_records, processor >>

\* a processor that hands back the record in place of the profile
Attach_Replace(profile, interview_data) ==
    IF validate_interview_data(interview_data)
    THEN [interview |-> interview_data]
    ELSE profile

\* lines 159-163: profile['interview'] = interview_data, if it is valid
Attach(profile, interview_data) ==
    IF validate_interview_data(interview_data)
    THEN SetItem(profile, "interview", interview_data)
    ELSE profile

\* lines 155-163
DPGenerateInterview ==
    /\ pc = "dp_generate_interview"
    /\ DPStep("dp_generate_interview")
    /\ IF ~processor.generate_interview
       THEN /\ pc' = "dp_save"
            /\ UNCHANGED << profile_data, chat_data, interview_valid, result,
                            exc, interview_resp, completion_requests >>
       ELSE \E resp \in InterviewResponses, now \in 1..MaxClock :
              LET r == generate_interview_chat(profile_data, openai_key, resp, now)
              IN
              /\ interview_resp' = IF r.requests > 0 THEN resp ELSE NoResponse
              /\ completion_requests' = completion_requests + r.requests
              /\ IF r.exc # NoExc
                 THEN /\ DPRaise(r.exc)
                      /\ UNCHANGED << profile_data, chat_data, interview_valid >>
                 ELSE /\ chat_data' = r.val
                      /\ interview_valid' = validate_interview_data(r.val)
                      /\ profile_data' = Attach(profile_data, r.val)
                      /\ pc' = "dp_save"
                      /\ UNCHANGED << result, exc >>
    /\ UNCHANGED << name, email, cv_url, dice_url, push_supabase, openai_key,
                    supabase_creds, cv_text, dice_text, is_valid,
                    supabase_result, profile_resp, sink_outcome, sink_calls,
                    sink_records, processor >>

\* lines 194-202: [exc, files]
_save_profile(profile, output_path, files) ==
    IF output_path = "out.json"
    THEN [exc |-> NoExc, files |-> Append(files, profile)]
    ELSE [exc |-> Exc("PermissionError", << "Permission denied: " >> \o << output_path >>,
                      "_save_profile"),
          files |-> files]

\* lines 166-167
DPSave ==
    /\ pc = "dp_save"
    /\ DPStep("dp_save")
    /\ IF processor.output_path = ""
       THEN pc' = "dp_push" /\ UNCHANGED << processor, result, exc >>
       ELSE LET r == _save_profile(profile_data, processor.output_path,
                                   processor.files)
            IN  /\ processor' = [processor EXCEPT !.files = r.files]
                /\ IF r.exc # NoExc
                   THEN DPRaise(r.exc)
                   ELSE pc' = "dp_push" /\ UNCHANGED << result, exc >>
    /\ UNCHANGED << name, email, cv_url, dice_url, push_supabase, openai_key,
                    supabase_creds, cv_text, dice_text, profile_data, is_valid,
                    chat_data, interview_valid, supabase_result, profile_resp,
                    interview_resp, sink_outcome, completion_requests,
                    sink_calls, sink_records >>

\* a processor that pushes whenever it is asked to
PushWanted_Always(push, profile) == push

\* line 170: if push_to_supabase and 'interview' in profile
PushWanted(push, profile) == push /\ "interview" \in DOMAIN profile

\* lines 170-185
DPPush ==
    /\ pc = "dp_push"
    /\ DPStep("dp_push")
    /\ IF ~PushWanted(push_supabase, profile_data)
       THEN /\ pc' = "dp_return"
            /\ UNCHANGED << supabase_result, result, exc, sink_outcome,
                            sink_calls, sink_records >>
       ELSE \E outcome \in SinkOutcomes :
              LET r == insert_candidate_to_supabase(
                          profile_data,
                          Get(profile_data, "interview", EmptyDict),
                          << "anu.cv.uploads/" >> \o Basename(cv_url),
                          << "anu.dice.uploads/" >> \o Basename(dice_url),
                          supabase_creds, outcome)
              IN
              /\ sink_outcome' = IF supabase_creds THEN outcome ELSE "no_credentials"
              /\ sink_calls' = sink_calls + 1
              /\ sink_records' = sink_records \o r.sent
              /\ IF r.exc # NoExc
                 THEN DPRaise(r.exc) /\ UNCHANGED supabase_result
                 ELSE /\ supabase_result' = r.val
                      /\ pc' = "dp_return"
                      /\ UNCHANGED << result, exc >>
    /\ UNCHANGED << name, email, cv_url, dice_url, push_supabase, openai_key,
                    supabase_creds, cv_text, dice_text, profile_data, is_valid,
                    chat_data, interview_valid, profile_resp, interview_resp,
                    completion_requests, processor >>

\* lines 187-188: return profile
DPReturn ==
    /\ pc = "dp_return"
    /\ DPStep("dp_return")
    /\ result' = profile_data
    /\ pc' = "dp_returned"
    /\ UNCHANGED << name, email, cv_url, dice_url, push_supabase, openai_key,
                    supabase_creds, cv_text, dice_text, profile_data, is_valid,
                    chat_data, interview_valid, supabase_result, exc,
                    profile_resp, interview_resp, sink_outcome,
                    completion_requests, sink_calls, sink_records, processor >>

NextProcessor ==
    \/ DPExtractTexts
    \/ DPExtractProfile
    \/ DPValidateProfile
    \/ DPGenerateInterview
    \/ DPSave
    \/ DPPush
    \/ DPReturn

ProcessorSpec == InitProcessor /\ [][NextProcessor]_vars

\* both orchestration paths: a run is one of run_pipeline or one of
\* process_candidate_documents
InitEither == Init \/ InitProcessor

NextEither == Next \/ NextProcessor

EitherSpec == InitEither /\ [][NextEither]_vars

----------------------------------------------------------------------------
(* app.py: POST /api/process_candidate *)

\* a JSON object sent as the request body
ObjectBody(obj) == [kind |-> "object", obj |-> obj]

FullBody ==
    [name |-> << "Test Candidate" >>, email |-> << "test@example.com" >>,
     cv_url |-> << "cv.pdf" >>, dice_url |-> << "dice.pdf" >>]

body_required_fields == << "name", "email", "cv_url", "dice_url" >>

\* the request bodies: JSON objects with and without the four fields, and
\* bodies that are no JSON object (kind "malformed": not JSON at all;
\* "number"; "list" and "string" with the field names they contain)
Bodies ==
    { ObjectBody([FullBody EXCEPT !.cv_url = cv]) :
        cv \in { << "cv.pdf" >>, << "torn.pdf" >>, << "nowhere.pdf" >> } }
    \cup { ObjectBody(SetItem(FullBody, "phone", << "98" >>)) }
    \cup { ObjectBody(Restrict(FullBody, DOMAIN FullBody \ {k})) :
             k \in DOMAIN FullBody }
    \cup { ObjectBody(EmptyDict),
           [kind |-> "malformed"],
           [kind |-> "number"],
           [kind |-> "list", has |-> {}],
           [kind |-> "list", has |-> DOMAIN FullBody],
           [kind |-> "string", has |-> DOMAIN FullBody] }

\* HTTPException(status_code, detail)
HTTPException(status_code, detail) ==
    [status |-> status_code, response |-> [detail |-> detail]]

\* lines 45-56 up to the call of run_pipeline: the response that ends the
\* request, or status 0 when the pipeline is to be run
RECURSIVE CheckFields(_, _)
CheckFields(body, fields) ==
    IF fields = << >>
    THEN IF body.kind = "object"
         THEN [status |-> 0, response |-> EmptyDict]
         ELSE \* body['name'] on a list or a string: TypeError, line 82
              HTTPException(500, << "Internal server error: ", "TypeError" >>)
    ELSE IF body.kind = "number"
    THEN \* `field not in body` raises TypeError, line 82
         HTTPException(500, << "Internal server error: ", "TypeError" >>)
    ELSE IF (body.kind = "object" /\ Head(fields) \notin DOMAIN body.obj)
            \/ (body.kind \in { "list", "string" } /\ Head(fields) \notin body.has)
    THEN HTTPException(400, << "Missing required field: ", Head(fields) >>)
    ELSE CheckFields(body, Tail(fields))

\* lines 45-54
ParseRequest(body) ==
    IF body.kind = "malformed"
    THEN \* request.json() raises, line 82
         HTTPException(500, << "Internal server error: ", "JSONDecodeError" >>)
    ELSE CheckFields(body, body_required_fields)

InitHandler ==
    /\ pc = "http_request"
    /\ http \in [body : Bodies, status : { 0 }, response : { EmptyDict }]
    /\ other = NotStarted
    /\ processor = NoProcessor
    /\ name = << >>
    /\ email = << >>
    /\ cv_url = << >>
    /\ dice_url = << >>
    /\ push_supabase = TRUE
    /\ openai_key \in BOOLEAN
    /\ supabase_creds \in BOOLEAN
    /\ cv_text = << >>
    /\ dice_text = << >>
    /\ profile_data = EmptyDict
    /\ is_valid = FALSE
    /\ chat_data = EmptyDict
    /\ interview_valid = FALSE
    /\ supabase_result = None
    /\ result = EmptyDict
    /\ exc = NoExc
    /\ profile_resp = NoResponse
    /\ interview_resp = NoResponse
    /\ sink_outcome = "not_called"
    /\ completion_requests = 0
    /\ sink_calls = 0
    /\ sink_records = << >>
    /\ trace = << >>

\* lines 45-66: the body is parsed and checked, then run_pipeline is called
\* with its four fields and push_supabase=True
ReceiveRequest ==
    /\ pc = "http_request"
    /\ LET r == ParseRequest(http.body) IN
       IF r.status # 0
       THEN /\ http' = [http EXCEPT !.status = r.status, !.response = r.response]
            /\ pc' = "http_responded"
            /\ UNCHANGED << name, email, cv_url, dice_url >>
       ELSE /\ name' = http.body.obj["name"]
            /\ email' = http.body.obj["email"]
            /\ cv_url' = http.body.obj["cv_url"]
            /\ dice_url' = http.body.obj["dice_url"]
            /\ pc' = "extract_cv"
            /\ http' = http
    /\ UNCHANGED << push_supabase, openai_key, supabase_creds, cv_text,
                    dice_text, profile_data, is_valid, chat_data,
                    interview_valid, supabase_result, result, exc, profile_resp,
                    interview_resp, sink_outcome, completion_requests,
                    sink_calls, sink_records, trace, other, processor >>

\* lines 69-77
Answer(res) ==
    IF Get(res, "status", "") = "error"
    THEN HTTPException(500, << "Processing failed: " >> \o Get(res, "error", << >>))
    ELSE [status |-> 200, response |-> res]

\* lines 69-77: run_pipeline has returned
SendResponse ==
    /\ pc = "done"
    /\ http.body.kind # "none"
    /\ http' = [http EXCEPT !.status = Answer(result).status,
                            !.response = Answer(result).response]
    /\ pc' = "http_responded"
    /\ UNCHANGED << name, email, cv_url, dice_url, push_supabase, openai_key,
                    supabase_creds, cv_text, dice_text, profile_data, is_valid,
                    chat_data, interview_valid, supabase_result, result, exc,
                    profile_resp, interview_resp, sink_outcome,
                    completion_requests, sink_calls, sink_records, trace,
                    other, processor >>

NextHandler == ReceiveRequest \/ Next \/ SendResponse

HandlerSpec == InitHandler /\ [][NextHandler]_vars

----------------------------------------------------------------------------
(* Properties *)

Did(step) == \E i \in DOMAIN trace : trace[i] = step

Returned == pc = "done"

\* extract_candidate_profile was called and returned a profile
ProfileReturned == Did("extract_profile") /\ exc.where # "extract_candidate_profile"

\* generate_interview_chat was called and returned a record
InterviewReturned == Did("generate_interview") /\ exc.where # "generate_interview_chat"

ResultKeys == { "profile", "interview", "summary_notes", "memories" }

ErrorResult(msg) ==
    [status |-> "error", error |-> msg, profile |-> EmptyDict,
     interview |-> EmptyDict, summary_notes |-> << >>, memories |-> << >>]

\* C1: run_pipeline never raises to its caller; whatever its external calls
\* do, it returns a mapping whose status is "success" or "error" and that has
\* the keys profile, interview, summary_notes and memories.
C1_NeverRaises ==
    /\ pc # "raised"
    /\ Returned =>
         /\ "status" \in DOMAIN result
         /\ result["status"] \in { "success", "error" }
         /\ ResultKeys \subseteq DOMAIN result

\* an exception raised after both texts were extracted is turned into a result
C1_Witness ==
    /\ Returned
    /\ exc.type = "TypeError"
    /\ result["status"] = "error"

\* C2: only a document that is not found or whose text cannot be extracted
\* makes run_pipeline return status "error"; every other failure ends with
\* status "success".
C2_OnlyExtractionAborts ==
    (Returned /\ result["status"] = "error") => exc.where = "extract_text_from_pdf"

\* C3: extract_candidate_profile never raises; when the completion service
\* fails or its output does not parse, it returns the canonical empty profile
\* after exactly one completion request.
C3_ExtractProfileNeverRaises ==
    /\ exc.where # "extract_candidate_profile"
    /\ (pc = "validate_profile" /\ profile_resp \in FailedResponses) =>
         /\ profile_data = _get_default_profile
         /\ completion_requests = 1

\* C4 as stated: every profile extract_candidate_profile returns has all
\* seven keys, so validate_profile is true for it.
C4_AllSevenKeys == ProfileReturned => validate_profile(profile_data)

\* C4, amended: a returned profile is the canonical empty profile when the
\* request failed or its text is no JSON object, and otherwise the object the
\* service produced, unchanged; it has all seven keys exactly when it is the
\* canonical empty profile or the produced object has them.
C4_ProfileShape ==
    ProfileReturned =>
        /\ profile_resp.kind = "json_object" => profile_data = profile_resp.obj
        /\ profile_resp.kind # "json_object" =>
             /\ profile_data = _get_default_profile
             /\ DOMAIN profile_data = required_fields
        /\ validate_profile(profile_data) <=>
             \/ profile_resp.kind # "json_object"
             \/ required_fields \subseteq DOMAIN profile_resp.obj

\* a partially shaped profile reaches the caller of run_pipeline
C4_Witness ==
    /\ Returned
    /\ result["status"] = "success"
    /\ "name" \in DOMAIN result["profile"]
    /\ "skills" \notin DOMAIN result["profile"]

\* a failed request has produced the canonical empty profile
C4_WitnessFallback ==
    /\ ProfileReturned
    /\ profile_resp.kind = "malformed"
    /\ profile_data = _get_default_profile

\* C5: every record generate_interview_chat returns has the keys chat_log,
\* answers, memories and summary_notes, so validate_interview_data is true.
C5_AllFourKeys == InterviewReturned => validate_interview_data(chat_data)

\* C6: generate_interview_chat never raises for a profile that
\* extract_candidate_profile can return.
C6_GenerateNeverRaises == exc.where # "generate_interview_chat"

\* C7: when the synthesis request fails or its output does not parse,
\* generate_interview_chat returns the canonical default record: two turns
\* (Anu, then Candidate), nine answers that are all empty, one memory, a
\* summary with the text of that memory, and validate_interview_data true.
C7_DefaultRecord ==
    (InterviewReturned /\ interview_resp \in FailedResponses) =>
        /\ validate_interview_data(chat_data)
        /\ Len(chat_data["chat_log"]) = 2
        /\ chat_data["chat_log"][1].role = "Anu"
        /\ chat_data["chat_log"][2].role = "Candidate"
        /\ DOMAIN chat_data["answers"] = AnswerTopics
        /\ Cardinality(AnswerTopics) = 9
        /\ \A topic \in AnswerTopics : chat_data["answers"][topic] = << >>
        /\ Len(chat_data["memories"]) = 1
        /\ chat_data["summary_notes"] = chat_data["memories"][1]

\* the default record was built for a profile that holds no name
C7_Witness ==
    /\ InterviewReturned
    /\ interview_resp.kind = "error"
    /\ "name" \notin DOMAIN profile_data
    /\ Len(chat_data["memories"]) = 1

MetadataKeys ==
    { "generated_at", "candidate_name", "personality_type", "tone_profile", "version" }

Fallback == interview_resp.kind # "json_object"

\* C8 as stated: on both branches the metadata holds the timestamp, the
\* candidate name, the personality type, the tone profile and the version
\* tag; it holds an error marker on the fallback branch and only there.
C8_MetadataAlike ==
    InterviewReturned =>
        /\ "metadata" \in DOMAIN chat_data
        /\ MetadataKeys \subseteq DOMAIN chat_data["metadata"]
        /\ "error" \in DOMAIN chat_data["metadata"] <=> Fallback

\* C8, amended: every returned record has a metadata mapping with the
\* timestamp, the candidate name and a version tag; on the success branch it
\* also holds the personality type and the tone profile and no error marker,
\* on the fallback branch it holds an error marker and neither of the two.
C8_Metadata ==
    InterviewReturned =>
        /\ "metadata" \in DOMAIN chat_data
        /\ LET md == chat_data["metadata"] IN
           /\ DOMAIN md =
                IF Fallback
                THEN { "generated_at", "candidate_name", "error", "version" }
                ELSE MetadataKeys
           /\ md.generated_at \in 1..MaxClock
           /\ md.candidate_name = Get(profile_data, "name", JStr(<< "Candidate" >>))
           /\ IF Fallback
              THEN md.version = << "Anu v2 - Fallback" >>
              ELSE /\ md.personality_type =
                        Get(profile_data, "personality_type", JStr(<< "Unknown" >>))
                   /\ md.tone_profile =
                        Get(profile_data, "tone_profile", JStr(<< "warm and curious" >>))
                   /\ md.version = << "Anu v2 - Conversational Mentor" >>

\* a fallback record whose metadata has no personality type
C8_Witness ==
    /\ InterviewReturned
    /\ Fallback
    /\ "error" \in DOMAIN chat_data["metadata"]
    /\ "personality_type" \notin DOMAIN chat_data["metadata"]

\* a parsed record that brought its own metadata
C8_WitnessSuccess ==
    /\ InterviewReturned
    /\ ~Fallback
    /\ "metadata" \in DOMAIN interview_resp.obj
    /\ "error" \notin DOMAIN chat_data["metadata"]

Missing(locator) == PathOf(locator) \notin DOMAIN Documents

NotFoundMessage(locator) == << "PDF file not found: " >> \o PathOf(locator)

\* C9 as stated: when the CV locator or the DICE locator does not resolve to
\* an existing document, the result has status "error", an error string that
\* names the document that was not found, and empty profile, interview,
\* summary_notes and memories.
C9_NotFoundNamed ==
    (Returned /\ (Missing(cv_url) \/ Missing(dice_url))) =>
        result = ErrorResult(NotFoundMessage(IF Missing(cv_url) THEN cv_url ELSE dice_url))

\* C9, amended: in that case the result has status "error" and empty
\* profile, interview, summary_notes and memories; the error string names the
\* CV when the CV is not found, and names the DICE document when it is not
\* found and the text of the CV was extracted (a CV that exists but cannot be
\* read fails first, with its own error).
C9_NotFound ==
    (Returned /\ (Missing(cv_url) \/ Missing(dice_url))) =>
        /\ result["status"] = "error"
        /\ result = ErrorResult(result["error"])
        /\ Missing(cv_url) => result["error"] = NotFoundMessage(cv_url)
        /\ (~Missing(cv_url) /\ Did("extract_dice")) =>
              result["error"] = NotFoundMessage(dice_url)
        /\ (~Missing(cv_url) /\ ~Did("extract_dice")) =>
              /\ exc.type # "FileNotFoundError"
              /\ exc.where = "extract_text_from_pdf"

\* the DICE document is the one that is not found
C9_Witness ==
    /\ Returned
    /\ ~Missing(cv_url)
    /\ Missing(dice_url)
    /\ result["error"] = << "PDF file not found: ", "nowhere.pdf" >>

\* the CV is not found and is given with a "." component
C9_WitnessCv ==
    /\ Returned
    /\ Missing(cv_url)
    /\ result["status"] = "error"

\* C10: a persistence failure never changes the outcome: once the sink was
\* called, the result has status "success" and the profile and interview
\* that steps 1 to 5 produced, however the sink behaved.
C10_SinkNeverChangesOutcome ==
    /\ [](Did("persist") =>
            /\ exc = NoExc
            /\ pc \in { "assemble", "done" }
            /\ Returned => result = run_pipeline_result(profile_data, chat_data))
    /\ [][pc = "persist" =>
            /\ profile_data' = profile_data
            /\ chat_data' = chat_data
            /\ sink_outcome' \in SinkOutcomes \cup { "no_credentials" }]_vars

\* the sink raised and the invocation still succeeded
C10_Witness ==
    /\ Returned
    /\ sink_outcome = "insert_raises"
    /\ result["status"] = "success"
    /\ Len(sink_records) = 1

\* C11: a profile that fails validate_profile does not halt run_pipeline:
\* the interview is still synthesized from it, persistence is still attempted
\* when requested, and the invocation ends with status "success" carrying
\* that profile; the same holds after an interview record that fails
\* validate_interview_data.
C11_InvalidDoesNotHalt ==
    /\ (Returned /\ Did("validate_profile") /\ ~is_valid) =>
          /\ Did("generate_interview")
          /\ InterviewReturned
          /\ push_supabase => Did("persist")
          /\ result["status"] = "success"
          /\ result["profile"] = profile_data
    /\ (Returned /\ Did("validate_interview") /\ ~interview_valid) =>
          /\ push_supabase => Did("persist")
          /\ result["status"] = "success"
          /\ result["interview"] = chat_data

\* C12: in every result of run_pipeline the error key is present if and only
\* if status is "error"; a result with status "success" has no error key.
C12_ErrorKeyIffError ==
    Returned =>
        /\ "error" \in DOMAIN result <=> result["status"] = "error"
        /\ result["status"] = "success" =>
              DOMAIN result = ResultKeys \cup { "status" }
        /\ result["status"] = "error" =>
              /\ DOMAIN result = ResultKeys \cup { "status", "error" }
              /\ result["error"] = exc.msg
              /\ exc # NoExc

\* a success that fell back to both defaults has no error key
C12_Witness ==
    /\ Returned
    /\ result["status"] = "success"
    /\ profile_resp.kind = "error"
    /\ interview_resp.kind = "malformed"
    /\ "error" \notin DOMAIN result

\* C13: in every result with status "success" the top-level summary_notes
\* and memories equal the same-named fields of the interview record, which
\* always has them: the substitutes "" and [] are never used.
C13_DenormalizedCopies ==
    (Returned /\ result["status"] = "success") =>
        /\ { "summary_notes", "memories" } \subseteq DOMAIN result["interview"]
        /\ result["summary_notes"] = result["interview"]["summary_notes"]
        /\ result["memories"] = result["interview"]["memories"]

\* the service's object had neither field; both were filled in before the copy
C13_Witness ==
    /\ Returned
    /\ result["status"] = "success"
    /\ interview_resp.kind = "json_object"
    /\ "memories" \notin DOMAIN interview_resp.obj
    /\ "summary_notes" \notin DOMAIN interview_resp.obj
    /\ result["memories"] = << >>
    /\ result["summary_notes"] # << >>

SinkFields ==
    { "name", "email", "cv_url", "dice_url", "skills", "personality_type",
      "tone_profile", "summary_notes", "memories", "status" }

C15_WitnessSuccess ==
    /\ Returned
    /\ result["status"] = "success"
    /\ profile_resp.kind = "error"
    /\ interview_resp.kind = "error"
    /\ completion_requests = 2
    /\ sink_calls = 1

StepOrder(push) ==
    << "extract_cv", "extract_dice", "extract_profile", "validate_profile",
       "generate_interview", "validate_interview" >>
    \o (IF push THEN << "persist" >> ELSE << >>)
    \o << "assemble" >>

IsPrefix(s, t) == Len(s) <= Len(t) /\ s = SubSeq(t, 1, Len(s))

\* the step at which each function of the pipeline is called
StepOf(where) ==
    CASE where = "extract_candidate_profile" -> { "extract_profile" }
      [] where = "generate_interview_chat" -> { "generate_interview" }
      [] where = "insert_candidate_to_supabase" -> { "persist" }
      [] OTHER -> { "extract_cv", "extract_dice" }

\* C16: the steps of an invocation happen in one strict order (CV text,
\* DICE text, profile completion, profile validation, interview completion,
\* interview validation, persistence only when requested, result assembly);
\* no step runs twice, the only branch is the persist-or-not fork, and an
\* exception at a step jumps to the error result with no later step executed.
C16_StrictOrder ==
    /\ IsPrefix(trace, StepOrder(push_supabase))
    /\ \A i, j \in DOMAIN trace : trace[i] = trace[j] => i = j
    /\ ~Returned =>
          /\ exc = NoExc
          /\ pc = StepOrder(push_supabase)[Len(trace) + 1]
    /\ (Returned /\ exc = NoExc) =>
          /\ trace = StepOrder(push_supabase)
          /\ result["status"] = "success"
    /\ (Returned /\ exc # NoExc) =>
          /\ trace[Len(trace)] \in StepOf(exc.where)
          /\ ~Did("assemble")
          /\ result["status"] = "error"

\* the synthesis raised: validation, persistence and assembly never ran
C16_Witness ==
    /\ Returned
    /\ push_supabase
    /\ trace = << "extract_cv", "extract_dice", "extract_profile",
                  "validate_profile", "generate_interview" >>
    /\ result["status"] = "error"

\* persistence was not requested: the sink step is skipped
C16_WitnessNoPersist ==
    /\ Returned
    /\ ~push_supabase
    /\ result["status"] = "success"
    /\ ~Did("persist")
    /\ Len(trace) = 7

\* every call of a started invocation returns or raises: no step is postponed
\* for ever
FairSpec == Spec /\ WF_vars(Next)

Terminal == Returned /\ result["status"] \in { "success", "error" }

\* C17: provided every external call returns or raises, a started invocation
\* eventually reaches one of the two terminal outcomes, status "success" or
\* status "error"; it then stays there with that one result, and before that
\* it holds no result at all.
C17_Terminates ==
    /\ <>Terminal
    /\ [](Terminal => [](Terminal))
    /\ [][Terminal => result' = result]_vars
    /\ [](~Returned => (pc # "raised" /\ result = EmptyDict))

\* C17: a terminal state with status "error" reached from the middle of the
\* sequence
C17_Witness ==
    /\ Terminal
    /\ result["status"] = "error"
    /\ Did("extract_profile")
    /\ ~Did("validate_interview")

\* a record without the generation timestamp of its metadata
WithoutTimestamp(chat) ==
    IF "metadata" \in DOMAIN chat /\ "generated_at" \in DOMAIN chat["metadata"]
    THEN SetItem(chat, "metadata",
                 Restrict(chat["metadata"],
                          DOMAIN chat["metadata"] \ { "generated_at" }))
    ELSE chat

\* a second invocation with the inputs and the completions of this one, at
\* another time and with another answer of the sink
SecondInvocation(now, creds, outcome) ==
    run_pipeline(Invocation(name, email, cv_url, dice_url, push_supabase),
                 openai_key, creds,
                 Answers(profile_resp, interview_resp, now, outcome))

\* C18: two invocations with identical inputs and a deterministic completion
\* service (the same answers to both) return the same status, an identical
\* profile, and interview records equal in every field except the generation
\* timestamp in metadata.
C18_Idempotent ==
    Returned =>
      \A now \in 1..MaxClock, creds \in BOOLEAN, outcome \in SinkOutcomes :
        LET second == SecondInvocation(now, creds, outcome).result IN
        /\ SecondInvocation(now, creds, outcome).pc = "done"
        /\ second["status"] = result["status"]
        /\ second["profile"] = result["profile"]
        /\ WithoutTimestamp(second["interview"])
             = WithoutTimestamp(result["interview"])
        /\ second["summary_notes"] = result["summary_notes"]
        /\ second["memories"] = result["memories"]

\* C18: both invocations succeed on the fallback record, at different times
C18_Witness ==
    /\ Returned
    /\ result["status"] = "success"
    /\ interview_resp.kind = "error"
    /\ \E now \in 1..MaxClock :
         SecondInvocation(now, supabase_creds, "inserted").result["interview"]
           # result["interview"]

\* C18: both invocations succeed on a record of the service
C18_WitnessSuccess ==
    /\ Returned
    /\ result["status"] = "success"
    /\ interview_resp.kind = "json_object"
    /\ \E now \in 1..MaxClock :
         SecondInvocation(now, supabase_creds, "inserted").result["interview"]
           # result["interview"]

\* the local variables of the first invocation
Locals ==
    [pc |-> pc, name |-> name, email |-> email, cv_url |-> cv_url,
     dice_url |-> dice_url, push_supabase |-> push_supabase,
     cv_text |-> cv_text, dice_text |-> dice_text,
     profile_data |-> profile_data, is_valid |-> is_valid,
     chat_data |-> chat_data, interview_valid |-> interview_valid,
     supabase_result |-> supabase_result, result |-> result, exc |-> exc]

\* the first invocation run alone, with the answers it got
Alone(now, outcome) ==
    run_pipeline(Invocation(name, email, cv_url, dice_url, push_supabase),
                 openai_key, supabase_creds,
                 Answers(profile_resp, interview_resp, now, outcome))

\* the second invocation run alone, with the answers it got
OtherAlone ==
    run_pipeline([other.s EXCEPT !.pc = "extract_cv",
                    !.cv_text = << >>, !.dice_text = << >>,
                    !.profile_data = EmptyDict, !.is_valid = FALSE,
                    !.chat_data = EmptyDict, !.interview_valid = FALSE,
                    !.supabase_result = None, !.result = EmptyDict,
                    !.exc = NoExc],
                 openai_key, supabase_creds, other.a)

\* C19: concurrent invocations are independent: under every interleaving of
\* their steps each returns what it returns when run alone, a step of one
\* leaves every local variable of the other as it was, and the environment
\* both read is never written.
C19_Independent ==
    /\ [](Returned =>
            \E now \in 1..MaxClock, outcome \in SinkOutcomes :
                Locals = Alone(now, outcome))
    /\ [](other.s.pc = "done" => other.s = OtherAlone)
    /\ [][other' # other => Locals' = Locals]_vars
    /\ [][Locals' # Locals => other' = other]_vars
    /\ [][openai_key' = openai_key /\ supabase_creds' = supabase_creds]_vars

\* C19: both invocations have returned with different profiles, and the
\* second wrote its record to the table before the first did
C19_Witness ==
    /\ Returned
    /\ other.s.pc = "done"
    /\ result["status"] = "success"
    /\ other.s.result["status"] = "success"
    /\ other.s.result["profile"] # result["profile"]
    /\ Len(sink_records) = 2
    /\ sink_records[1]["name"] = Get(other.s.profile_data, "name", JStr(<< >>))
    /\ sink_records[2]["name"] = Get(profile_data, "name", JStr(<< >>))
    /\ sink_records[1]["name"] # sink_records[2]["name"]

\* the profile with every value emptied and every extra key dropped
KeysOnly(profile) ==
    [k \in DOMAIN profile
           \cap { "name", "email", "skills", "cad_tools", "projects",
                  "personality_type", "tone_profile" } |-> JStr(<< >>)]

\* C20: validate_profile returns false if and only if at least one of the
\* seven keys name, email, skills, cad_tools, projects, personality_type,
\* tone_profile is absent from the mapping; values and extra keys do not
\* affect the result, and the mapping is not modified.
C20_ValidateProfile ==
    /\ [](Did("validate_profile") =>
            /\ is_valid = FALSE <=>
                  \E k \in { "name", "email", "skills", "cad_tools", "projects",
                             "personality_type", "tone_profile" } :
                      k \notin DOMAIN profile_data
            /\ is_valid = validate_profile(KeysOnly(profile_data)))
    /\ [][pc = "validate_profile" => profile_data' = profile_data]_vars

\* C20: a profile whose seven values are all empty is valid
C20_Witness ==
    /\ Did("validate_profile")
    /\ is_valid
    /\ profile_data = _get_default_profile

\* C20: an extra key does not matter
C20_WitnessExtraKey ==
    /\ Did("validate_profile")
    /\ is_valid
    /\ "phone" \in DOMAIN profile_data

\* C20: one absent key makes the profile invalid
C20_WitnessInvalid ==
    /\ Did("validate_profile")
    /\ ~is_valid
    /\ DOMAIN profile_data = required_fields \ { "tone_profile" }

\* the record with the metadata dropped and every value emptied
InterviewKeysOnly(chat) ==
    Restrict(EmptiedInterview, DOMAIN chat \ { "metadata" })

\* C21: validate_interview_data returns true if and only if all four keys
\* chat_log, answers, memories and summary_notes are present in the record;
\* the metadata key and the contents of the values do not affect the result,
\* and the default record built for any profile is valid.
C21_ValidateInterview ==
    pc = "returned_validate_interview_data" =>
       /\ interview_valid <=>
             { "chat_log", "answers", "memories", "summary_notes" }
                \subseteq DOMAIN chat_data
       /\ interview_valid = validate_interview_data(InterviewKeysOnly(chat_data))
       /\ (\E p \in ProfileObjects \cup { [name |-> JStr(<< "Test User" >>)] } :
              chat_data = _get_default_interview_data(p, 1)) => interview_valid

\* C21: the default record of a profile holding only a name is valid
C21_Witness ==
    /\ pc = "returned_validate_interview_data"
    /\ interview_valid
    /\ chat_data = _get_default_interview_data([name |-> JStr(<< "Test User" >>)], 1)

\* C21: four emptied values and no metadata are valid
C21_WitnessEmptied ==
    /\ pc = "returned_validate_interview_data"
    /\ interview_valid
    /\ chat_data = Restrict(EmptiedInterview, interview_required_fields)

\* C21: metadata does not make up for a missing key
C21_WitnessInvalid ==
    /\ pc = "returned_validate_interview_data"
    /\ ~interview_valid
    /\ DOMAIN chat_data = { "chat_log", "answers", "memories", "metadata" }

\* the completion service answered the profile request with a JSON object
\* holding the seven profile fields
WellFormedAnswer ==
    /\ profile_resp.kind = "json_object"
    /\ { "name", "email", "skills", "cad_tools", "projects",
         "personality_type", "tone_profile" } \subseteq DOMAIN profile_resp.obj

ExtractCalls ==
    (IF Did("extract_cv") THEN { cv_url } ELSE {})
    \cup (IF Did("extract_dice") THEN { dice_url } ELSE {})

\* C23 as stated: a failure while parsing an existing document is reported as
\* an extraction error that wraps the underlying cause.
C23_WrapsCause ==
    \A l \in ExtractCalls :
        (PathOf(l) \in DOMAIN Documents /\ extract_text_from_pdf(l).exc # NoExc) =>
            /\ extract_text_from_pdf(l).exc.type = "ExtractionError"
            /\ extract_text_from_pdf(l).exc # ParserError(PathOf(l))

\* C23 (amended): extract_text_from_pdf fails with a not-found error, without
\* opening anything, when the locator does not resolve to an existing
\* document; on a failure while parsing an existing document it re-raises
\* the parser's own exception unchanged; it opens the document at most once
\* and returns no text after a failure.
C23_ExtractFailures ==
    /\ \A l \in ExtractCalls :
         LET r == extract_text_from_pdf(l)
             pdf_path == PathOf(l)
         IN
         /\ pdf_path \notin DOMAIN Documents =>
               /\ r.exc.type = "FileNotFoundError"
               /\ r.opens = 0
         /\ pdf_path \in DOMAIN Documents =>
               /\ r.opens = 1
               /\ r.exc = ParserError(pdf_path)
               /\ (~Documents[pdf_path].readable
                     \/ Documents[pdf_path].bad_page # 0) => r.exc # NoExc
         /\ r.exc # NoExc => r.val = << >>
    /\ (Returned /\ exc.where = "extract_text_from_pdf") =>
         /\ Did("extract_dice") => dice_text = << >>
         /\ ~Did("extract_dice") => cv_text = << >>
         /\ result["status"] = "error"
         /\ result["error"] = exc.msg

\* C23: the second page of an existing document failed to parse
C23_Witness ==
    /\ Returned
    /\ PathOf(cv_url) = << "torn.pdf" >>
    /\ exc.type = "PSEOF"
    /\ cv_text = << >>

\* C23: the locator resolves to no document
C23_WitnessNotFound ==
    /\ Returned
    /\ Did("extract_dice")
    /\ PathOf(dice_url) \notin DOMAIN Documents
    /\ exc.type = "FileNotFoundError"

\* the run is one of process_candidate_documents
InProcessor ==
    pc \in { "dp_extract_texts", "dp_extract_profile", "dp_validate_profile",
             "dp_generate_interview", "dp_save", "dp_push", "dp_return",
             "dp_returned", "dp_raised" }

\* extract_candidate_profile has returned a profile in this run
ProfileCreated ==
    /\ Did("extract_profile") \/ Did("dp_extract_profile")
    /\ exc.where # "extract_candidate_profile"

\* the profile as extract_candidate_profile returned it
Created == extract_candidate_profile(openai_key, profile_resp).val

\* the synthesizer has returned a record in this run
RecordCreated ==
    /\ Did("generate_interview")
         \/ (Did("dp_generate_interview") /\ processor.generate_interview)
    /\ exc.where # "generate_interview_chat"

\* C24 as stated: in both orchestration paths the profile keeps exactly the
\* keys and values it had when extract_candidate_profile returned it, up to
\* and including the value handed to the caller.
C24_NeverMutated ==
    ProfileCreated =>
       /\ profile_data = Created
       /\ pc = "dp_returned" => result = Created
       /\ (Returned /\ result["status"] = "success") => result["profile"] = Created

\* C24 (amended): run_pipeline never changes the profile; in
\* process_candidate_documents the only change is that the key "interview" is
\* set, after the synthesizer has read the profile, exactly when generation
\* was requested and the record is valid; every key the profile was created
\* with keeps its value, and the synthesizer is given the profile as created.
C24_ProfileFrame ==
    ProfileCreated =>
       /\ DOMAIN Created \subseteq DOMAIN profile_data
       /\ \A k \in DOMAIN Created : profile_data[k] = Created[k]
       /\ DOMAIN profile_data \subseteq DOMAIN Created \cup { "interview" }
       /\ ~InProcessor => profile_data = Created
       /\ "interview" \in DOMAIN profile_data <=>
             (InProcessor /\ RecordCreated /\ interview_valid)
       /\ "interview" \in DOMAIN profile_data =>
             profile_data["interview"] = chat_data
       /\ RecordCreated =>
             \E now \in 1..MaxClock :
                chat_data = generate_interview_chat(Created, openai_key,
                                                    interview_resp, now).val
       /\ pc = "dp_returned" => result = profile_data
       /\ (Returned /\ result["status"] = "success") => result["profile"] = Created

\* C24: process_candidate_documents returned the profile with the record
\* attached, after handing it to the sink
C24_Witness ==
    /\ pc = "dp_returned"
    /\ ProfileCreated
    /\ "interview" \in DOMAIN result
    /\ result # Created
    /\ sink_calls = 1

\* C24: run_pipeline returned the profile as created, after handing it to the
\* sink
C24_WitnessPipeline ==
    /\ Returned
    /\ ProfileCreated
    /\ result["status"] = "success"
    /\ result["profile"] = Created
    /\ "name" \in DOMAIN Created
    /\ sink_calls = 1

\* the request body is a JSON object with the four fields
HasAllFields(body) ==
    /\ body.kind = "object"
    /\ { "name", "email", "cv_url", "dice_url" } \subseteq DOMAIN body.obj

\* C25: the process-candidate operation answers with a success status code
\* exactly when the request body has all four fields and run_pipeline returned
\* status "success", and then the body of the answer is the pipeline result
\* unchanged; a body missing any of the four fields is rejected with a
\* client-error code before the pipeline is invoked, and a pipeline result
\* with status "error" is never answered with a success code.
C25_StatusCodes ==
    pc = "http_responded" =>
       /\ http.status \in 200..299 <=>
             (HasAllFields(http.body) /\ trace # << >>
                /\ result["status"] = "success")
       /\ http.status \in 200..299 => http.response = result
       /\ ~HasAllFields(http.body) =>
             (http.status \in 400..499 /\ trace = << >>)
       /\ (trace # << >> /\ result["status"] = "error") =>
             http.status \notin 200..299

\* C25 for bodies that are JSON objects
C25_ObjectBodies ==
    (pc = "http_responded" /\ http.body.kind = "object") =>
       /\ http.status = 200 <=>
             (HasAllFields(http.body) /\ trace # << >>
                /\ result["status"] = "success")
       /\ http.status = 200 => http.response = result
       /\ ~HasAllFields(http.body) => (http.status = 400 /\ trace = << >>)
       /\ http.status \in { 200, 400, 500 }

\* other values of the name and email arguments
OtherNames == { << "Someone Else" >>, << >> }

OtherEmails == { << "else@example.com" >>, << >> }

\* an invocation that differs from this one in name and email only
Renamed(name_, email_, now, outcome) ==
    run_pipeline(Invocation(name_, email_, cv_url, dice_url, push_supabase),
                 openai_key, supabase_creds,
                 Answers(profile_resp, interview_resp, now, outcome))

\* the record that invocation s hands to the sink, if it gets that far
SentBy(s, outcome) ==
    IF s.push_supabase /\ s.exc = NoExc
    THEN insert_candidate_to_supabase(ProfileOf(s), s.chat_data, s.cv_url,
                                      s.dice_url, supabase_creds, outcome).sent
    ELSE << >>

\* C26: the name and email arguments of run_pipeline do not influence its
\* output: an invocation that differs only in name and email, with the same
\* locators and the same completion-service and sink behaviour, returns the
\* same result and hands the same record to the persistence sink; the
\* persisted name and email are those of the extracted profile.
C26_NameEmailIgnored ==
    Returned =>
       /\ \A name_ \in OtherNames, email_ \in OtherEmails :
            \E now \in 1..MaxClock :
              \E outcome \in IF sink_outcome \in SinkOutcomes
                             THEN { sink_outcome } ELSE SinkOutcomes :
                LET second == Renamed(name_, email_, now, outcome) IN
                /\ second.pc = "done"
                /\ second.name # name
                /\ second.result = result
                /\ SentBy(second, outcome) = sink_records
       /\ \A i \in DOMAIN sink_records :
            /\ sink_records[i]["name"] = Get(profile_data, "name", JStr(<< >>))
            /\ sink_records[i]["email"] = Get(profile_data, "email", JStr(<< >>))

\* C26: a record was persisted whose name and email are the profile's, not
\* the request's
C26_Witness ==
    /\ Returned
    /\ result["status"] = "success"
    /\ Len(sink_records) = 1
    /\ sink_records[1]["name"] = JStr(<< "Asha" >>)
    /\ sink_records[1]["name"] # JStr(name)
    /\ sink_records[1]["email"] # JStr(email)
    /\ Renamed(<< "Someone Else" >>, << >>, 1, "inserted").name # name

\* steps 1 to 4 (text extraction, profile extraction, profile validation,
\* interview generation and its validation) have run and none raised
StepsOneToFourDone == Did("validate_interview")

\* C27: with persistence requested, insert_candidate_to_supabase is called
\* exactly once whenever steps 1 to 4 did not raise, also when the profile and
\* the interview record are the fallback defaults (placeholder content is
\* persisted with status "pending"); it is called zero times when persistence
\* is not requested or an earlier step raised; without sink credentials the
\* call returns nothing and attempts no insert.
C27_SinkCalls ==
    /\ sink_calls <= 1
    /\ Returned =>
          sink_calls = (IF push_supabase /\ StepsOneToFourDone THEN 1 ELSE 0)
    /\ (Returned /\ exc # NoExc) => ~StepsOneToFourDone
    /\ (sink_calls = 1 /\ supabase_creds
          /\ sink_outcome \in { "insert_raises", "empty_data", "inserted" }
          /\ profile_data = _get_default_profile
          /\ Fallback) =>
             /\ Len(sink_records) = 1
             /\ DOMAIN sink_records[1] =
                   { "name", "email", "cv_url", "dice_url", "skills", "status",
                     "summary_notes", "memories" }
             /\ sink_records[1]["status"] = << "pending" >>
             /\ sink_records[1]["name"] = JStr(<< >>)
             /\ sink_records[1]["summary_notes"] = FailureNote(JStr(<< >>))
    /\ (sink_calls = 1 /\ ~supabase_creds) =>
          /\ sink_records = << >>
          /\ supabase_result = None
          /\ sink_outcome = "no_credentials"

\* C27: both fallbacks were persisted
C27_Witness ==
    /\ Returned
    /\ result["status"] = "success"
    /\ profile_data = _get_default_profile
    /\ chat_data = _get_default_interview_data(profile_data,
                                               chat_data["metadata"].generated_at)
    /\ sink_calls = 1
    /\ sink_outcome = "inserted"
    /\ Len(sink_records) = 1
    /\ sink_records[1]["status"] = << "pending" >>

\* C27: the sink was called without credentials
C27_WitnessNoCredentials ==
    /\ Returned
    /\ sink_calls = 1
    /\ ~supabase_creds
    /\ sink_records = << >>

\* the position of a step in the trace, 0 if it has not run
RECURSIVE IndexOf(_, _)
IndexOf(steps, step) ==
    IF steps = << >> THEN 0
    ELSE IF steps[Len(steps)] = step THEN Len(steps)
    ELSE IndexOf(SubSeq(steps, 1, Len(steps) - 1), step)

\* C28: in process_candidate_documents the interview record is attached to
\* the profile only when generation was requested and the record passes
\* validate_interview_data; the sink is called only when a push was requested
\* and an interview is attached; a file save happens before the push; a
\* failed save propagates the exception and no push is made; every exception
\* is re-raised, no error result is returned.
C28_Processor ==
    /\ "interview" \in DOMAIN profile_data =>
          /\ processor.generate_interview
          /\ validate_interview_data(chat_data)
          /\ interview_valid
          /\ profile_data["interview"] = chat_data
    /\ sink_calls <= 1
    /\ sink_calls = (IF Did("dp_push") /\ push_supabase
                        /\ "interview" \in DOMAIN profile_data
                     THEN 1 ELSE 0)
    /\ Len(sink_records) <= sink_calls
    /\ Did("dp_push") =>
          /\ 0 < IndexOf(trace, "dp_save")
          /\ IndexOf(trace, "dp_save") < IndexOf(trace, "dp_push")
          /\ exc.where # "_save_profile"
          /\ processor.files =
                (IF processor.output_path = "" THEN << >> ELSE << profile_data >>)
    /\ exc.where = "_save_profile" =>
          /\ pc = "dp_raised"
          /\ sink_calls = 0
          /\ processor.files = << >>
    /\ exc # NoExc <=> pc = "dp_raised"
    /\ pc = "dp_raised" => result = EmptyDict
    /\ pc = "dp_returned" =>
          /\ result = profile_data
          /\ "status" \notin DOMAIN result

\* C28: the profile with its interview was saved, then pushed, then returned
C28_Witness ==
    /\ pc = "dp_returned"
    /\ "interview" \in DOMAIN result
    /\ processor.files = << result >>
    /\ Len(sink_records) = 1

\* C28: the save failed: the exception went to the caller, nothing was pushed
C28_WitnessSaveFailed ==
    /\ pc = "dp_raised"
    /\ exc.type = "PermissionError"
    /\ push_supabase
    /\ "interview" \in DOMAIN profile_data
    /\ sink_calls = 0

\* C28: the record failed validation: nothing attached and nothing pushed
C28_WitnessInvalid ==
    /\ pc = "dp_returned"
    /\ processor.generate_interview
    /\ push_supabase
    /\ ~interview_valid
    /\ "interview" \notin DOMAIN result
    /\ sink_calls = 0

====
